---- MODULE Spec2Model ----
(***************************************************************************)
(* Model of OpenXcom's CraftWeapon (src/src/Savegame/CraftWeapon.cpp): the *)
(* ammunition state of one craft weapon slot (_ammo, _rearming, _disabled) *)
(* and the operations on it.  One action per member function; the last     *)
(* call (its name, arguments, result and the state it started from) is     *)
(* kept in op/args/ret/pre so that a call's contract is a state predicate. *)
(***************************************************************************)
EXTENDS Integers, Sequences, FiniteSets, TLC

\* ------------------------------------------------------------------ bounds
MaxAmmoMax == 3      \* RuleCraftWeapon::getAmmoMax() ranges over 0..MaxAmmoMax
MaxRearmRate == 2    \* RuleCraftWeapon::getRearmRate() ranges over 0..MaxRearmRate
MaxAvailable == 2    \* rearm's available ranges over -1..MaxAvailable
MaxClipSize == 3     \* rearm's clipSize ranges over -1..MaxClipSize
AmmoSlack == 1       \* int ammo inputs range over -AmmoSlack..ammoMax+AmmoSlack
MaxClipItemSize == 2 \* RuleItem::getClipSize() of the clip item ranges over 0..MaxClipItemSize

VARIABLES rules, ammo, rearming, disabled, op, args, ret, pre, ammoUsed, clipsSaved, draws

vars == <<rules, ammo, rearming, disabled, op, args, ret, pre, ammoUsed, clipsSaved, draws>>

\* ------------------------------------------------- collaborators (rules)
\* "no item" for RuleCraftWeapon::getClipItem() / getLauncherItem() == nullptr
NoItem == [name |-> "nullptr"]

\* A RuleItem: its name and RuleItem::getClipSize().
Item(name, clipSize) == [name |-> name, clipSize |-> clipSize]

\* What getClipItem() may return: nothing, or an item of clip size 0..MaxClipItemSize.
ClipItems == {NoItem} \cup {Item("clip", n) : n \in 0..MaxClipItemSize}

\* The rule sets (RuleCraftWeapon) a weapon may be built with: read-only.
RuleSets ==
  [ ammoMax : 0..MaxAmmoMax,
    rearmRate : 0..MaxRearmRate,
    useStatisticalBulletSaving : BOOLEAN,
    clipItem : {NoItem},
    launcherItem : {NoItem},
    unifiedDamageFormula : {FALSE},
    type : {"STR_WEAPON"} ]

\* Rule sets whose clip item varies (statistical bullet saving left off).
ClipRuleSets ==
  [ ammoMax : 0..MaxAmmoMax,
    rearmRate : 0..MaxRearmRate,
    useStatisticalBulletSaving : {FALSE},
    clipItem : ClipItems,
    launcherItem : {NoItem},
    unifiedDamageFormula : {FALSE},
    type : {"STR_WEAPON"} ]

\* int values handed in as ammo (constructor, setAmmo, persisted record)
AmmoInputs(r) == (0 - AmmoSlack)..(r.ammoMax + AmmoSlack)

\* ------------------------------------------------------------ C++ helpers
\* C++ int division truncates toward zero (divisor > 0 here).
CDiv(a, b) == IF a >= 0 THEN a \div b ELSE 0 - ((0 - a) \div b)

Min(a, b) == IF a < b THEN a ELSE b

\* ---------------------------------------------------------------- setAmmo
\* setAmmo without the clamp to getAmmoMax() (lines 106-109 left out).
setAmmoValueNoUpperClamp(r, newAmmo) == IF newAmmo < 0 THEN 0 ELSE newAmmo

\* The value setAmmo leaves in _ammo.
setAmmoValue(r, newAmmo) ==
  IF newAmmo < 0 THEN 0
  ELSE IF newAmmo > r.ammoMax THEN r.ammoMax
  ELSE newAmmo

\* setAmmo reporting failure whenever the weapon is left empty.
setAmmoResultFalseWhenEmpty(r, newAmmo) == newAmmo > 0

\* The value setAmmo returns.
setAmmoResult(r, newAmmo) == ~(newAmmo < 0)

\* -------------------------------------------------------------- isRearming
\* isRearming without the _disabled test (lines 119-120 left out).
isRearmingResultUnmasked(d, rr) == rr

\* The value isRearming returns.
isRearmingResult(d, rr) == IF d THEN FALSE ELSE rr

\* ------------------------------------------------------------------- load
\* YamlNodeReader::tryRead(key, out): out is assigned only when the key is
\* present in the node; a missing key leaves out as it was.
tryRead(reader, key, out) == IF key \in DOMAIN reader THEN reader[key] ELSE out

\* One optional key of a persisted record.
Field(key, vals) == {<<>>} \cup {key :> v : v \in vals}

\* The persisted records load may be handed.
Readers(r) ==
  { a @@ b @@ c : a \in Field("ammo", AmmoInputs(r)),
                  b \in Field("rearming", BOOLEAN),
                  c \in Field("disabled", BOOLEAN) }

\* load giving a missing flag its default instead of leaving it alone.
loadStateDefaultsFalse(reader, s) ==
  [ ammo |-> tryRead(reader, "ammo", s.ammo),
    rearming |-> tryRead(reader, "rearming", FALSE),
    disabled |-> tryRead(reader, "disabled", FALSE) ]

\* The state load leaves, from the state s it is invoked on.
loadState(reader, s) ==
  [ ammo |-> tryRead(reader, "ammo", s.ammo),
    rearming |-> tryRead(reader, "rearming", s.rearming),
    disabled |-> tryRead(reader, "disabled", s.disabled) ]

\* ------------------------------------------------------------------- save
\* save forgetting the disabled flag (lines 71-72 left out).
saveNodeDropsDisabled(r, s) ==
  ("type" :> r.type) @@ ("ammo" :> s.ammo)
    @@ (IF s.rearming THEN "rearming" :> s.rearming ELSE <<>>)

\* The map save writes: type and ammo always, a flag only when it is set.
saveNode(r, s) ==
  ("type" :> r.type) @@ ("ammo" :> s.ammo)
    @@ (IF s.rearming THEN "rearming" :> s.rearming ELSE <<>>)
    @@ (IF s.disabled THEN "disabled" :> s.disabled ELSE <<>>)

\* ------------------------------------------------------------------ rearm
\* needed with the rounding correction off by one: +clipSize.
neededRoundsUpTooFar(r, a, clipSize) ==
  CDiv(Min(r.rearmRate, r.ammoMax - a + clipSize), clipSize)

\* needed without the +(clipSize - 1) rounding correction.
neededNoRoundUp(r, a, clipSize) ==
  CDiv(Min(r.rearmRate, r.ammoMax - a), clipSize)

\* int needed (line 166); only evaluated when clipSize > 0.
needed(r, a, clipSize) ==
  CDiv(Min(r.rearmRate, r.ammoMax - a + clipSize - 1), clipSize)

\* ammoUsed taken from needed alone, available ignored (line 167).
rearmAmmoUsedIgnoresAvailable(r, a, available, clipSize) ==
  IF clipSize > 0 THEN needed(r, a, clipSize) * clipSize ELSE r.rearmRate

\* int ammoUsed after lines 161-167.
rearmAmmoUsed(r, a, available, clipSize) ==
  IF clipSize > 0
    THEN (IF needed(r, a, clipSize) > available
            THEN available ELSE needed(r, a, clipSize)) * clipSize
    ELSE r.rearmRate

\* int overusedAmmo (line 172).
overusedAmmo(r, a, used) == a + used - r.ammoMax

\* The bullet-saving branch entered without asking useStatisticalBulletSaving().
rearmDrawsIgnoresFlag(r, a, available, clipSize) ==
  /\ clipSize > 0
  /\ clipSize > 1
  /\ overusedAmmo(r, a, rearmAmmoUsed(r, a, available, clipSize)) > 0

\* Whether the call reaches RNG::generate (lines 164, 170, 173).
rearmDraws(r, a, available, clipSize) ==
  /\ clipSize > 0
  /\ clipSize > 1 /\ r.useStatisticalBulletSaving
  /\ overusedAmmo(r, a, rearmAmmoUsed(r, a, available, clipSize)) > 0

\* RNG::generate(0, clipSize): the upper end of the draw off by one.
rearmDrawSeqsOffByOne(r, a, available, clipSize) ==
  IF rearmDraws(r, a, available, clipSize)
    THEN {<<d>> : d \in 0..clipSize}
    ELSE {<<>>}

\* RNG::generate(0, clipSize - 1): the sequences of values one call may draw.
rearmDrawSeqs(r, a, available, clipSize) ==
  IF rearmDraws(r, a, available, clipSize)
    THEN {<<d>> : d \in 0..(clipSize - 1)}
    ELSE {<<>>}

\* int clipsSaved at line 183, given the values drawn.
rearmClipsSaved(r, a, available, clipSize, drawn) ==
  IF /\ drawn # <<>>
     /\ drawn[1] < overusedAmmo(r, a, rearmAmmoUsed(r, a, available, clipSize))
    THEN 1 ELSE 0

\* The value rearm returns (line 187).
rearmResult(clipSize, used, saved) ==
  IF clipSize <= 0 THEN 0 ELSE CDiv(used, clipSize) - saved

\* _rearming as recomputed at line 185.
rearmRearming(r, a) == a < r.ammoMax

\* rearm giving the saved clip's rounds back: setAmmo applied to the ammo
\* less the saved clip (line 183 changed).
rearmOutcomeRefundsSaved(r, a, available, clipSize, drawn) ==
  LET used == rearmAmmoUsed(r, a, available, clipSize)
      saved == rearmClipsSaved(r, a, available, clipSize, drawn)
      newAmmo == setAmmoValue(r, a + used - saved * clipSize)
  IN [ ammo |-> newAmmo, rearming |-> rearmRearming(r, newAmmo),
       ret |-> rearmResult(clipSize, used, saved),
       ammoUsed |-> used, clipsSaved |-> saved ]

\* What one rearm call does from ammo a, given the values it draws: the ammo and
\* flag it leaves, the value it returns, and its locals ammoUsed and clipsSaved.
rearmOutcome(r, a, available, clipSize, drawn) ==
  LET used == rearmAmmoUsed(r, a, available, clipSize)
      saved == rearmClipsSaved(r, a, available, clipSize, drawn)
      newAmmo == setAmmoValue(r, a + used)
  IN [ ammo |-> newAmmo, rearming |-> rearmRearming(r, newAmmo),
       ret |-> rearmResult(clipSize, used, saved),
       ammoUsed |-> used, clipsSaved |-> saved ]

\* --------------------------------------------------------- getClipsLoaded
\* (int)floor((double)a / d): for d = 0 the quotient is infinite or NaN and
\* its conversion to int is undefined: any of these may come out.
UndefinedInts == {0 - 2147483647 - 1, 0, 2147483647}

FloorDivs(a, d) == IF d = 0 THEN UndefinedInts ELSE {a \div d}

\* The values getClipsLoaded may return.  retVal is first computed with the
\* rearm rate (line 217) and replaced when a clip item of positive size is set.
getClipsLoadedResults(r, a) ==
  IF r.clipItem # NoItem /\ r.clipItem.clipSize > 0
    THEN FloorDivs(a, r.clipItem.clipSize)
    ELSE FloorDivs(a, r.rearmRate)

\* ------------------------------------------------------------------- fire
\* The projectile fire() builds from the rules.
fireProjectile(r) ==
  [ damageItem |-> IF r.unifiedDamageFormula
                     THEN (IF r.clipItem # NoItem THEN r.clipItem
                           ELSE r.launcherItem)
                     ELSE NoItem,
    type |-> "projectileType", speed |-> "projectileSpeed",
    accuracy |-> "accuracy", damage |-> "damage", range |-> "range",
    shieldDamageModifier |-> "shieldDamageModifier" ]

\* ------------------------------------------------------------------ state
\* The state of the object as a record.
State == [ammo |-> ammo, rearming |-> rearming, disabled |-> disabled]

\* A call that is not rearm: no clip accounting, no RNG draw.
NoRearm == /\ ammoUsed' = 0
           /\ clipsSaved' = 0
           /\ draws' = <<>>

\* A const member function returning v.
Query(name, v) ==
  /\ op' = name
  /\ args' = <<>>
  /\ ret' = v
  /\ pre' = State
  /\ NoRearm
  /\ UNCHANGED <<rules, ammo, rearming, disabled>>

\* The flags a freshly constructed weapon has (line 37).
ctorRearming == FALSE
ctorDisabled == FALSE

\* ------------------------------------------------------------ constructor
InitWith(ruleSets) ==
  /\ rules \in ruleSets
  /\ ammo \in AmmoInputs(rules)
  /\ rearming = ctorRearming
  /\ disabled = ctorDisabled
  /\ op = "CraftWeapon"
  /\ args = [ammo |-> ammo]
  /\ ret = "void"
  /\ pre = [ammo |-> ammo, rearming |-> rearming, disabled |-> disabled]
  /\ ammoUsed = 0
  /\ clipsSaved = 0
  /\ draws = <<>>

Init == InitWith(RuleSets)

load ==
  \E reader \in Readers(rules) :
    /\ ammo' = loadState(reader, State).ammo
    /\ rearming' = loadState(reader, State).rearming
    /\ disabled' = loadState(reader, State).disabled
    /\ op' = "load"
    /\ args' = [reader |-> reader]
    /\ ret' = "void"
    /\ pre' = State
    /\ NoRearm
    /\ UNCHANGED rules

save == Query("save", saveNode(rules, State))

getAmmo == Query("getAmmo", ammo)

setAmmo ==
  \E newAmmo \in AmmoInputs(rules) :
    /\ ammo' = setAmmoValue(rules, newAmmo)
    /\ ret' = setAmmoResult(rules, newAmmo)
    /\ op' = "setAmmo"
    /\ args' = [ammo |-> newAmmo]
    /\ pre' = State
    /\ NoRearm
    /\ UNCHANGED <<rules, rearming, disabled>>

isRearming == Query("isRearming", isRearmingResult(disabled, rearming))

setRearming ==
  \E b \in BOOLEAN :
    /\ rearming' = b
    /\ op' = "setRearming"
    /\ args' = [rearming |-> b]
    /\ ret' = "void"
    /\ pre' = State
    /\ NoRearm
    /\ UNCHANGED <<rules, ammo, disabled>>

isDisabled == Query("isDisabled", disabled)

\* setDisabled that also clears the stored rearming flag when disabling.
setDisabledClearsRearming ==
  \E b \in BOOLEAN :
    /\ disabled' = b
    /\ rearming' = (IF b THEN FALSE ELSE rearming)
    /\ op' = "setDisabled"
    /\ args' = [disabled |-> b]
    /\ ret' = "void"
    /\ pre' = State
    /\ NoRearm
    /\ UNCHANGED <<rules, ammo>>

setDisabled ==
  \E b \in BOOLEAN :
    /\ disabled' = b
    /\ op' = "setDisabled"
    /\ args' = [disabled |-> b]
    /\ ret' = "void"
    /\ pre' = State
    /\ NoRearm
    /\ UNCHANGED <<rules, ammo, rearming>>

rearm ==
  \E available \in (0 - 1)..MaxAvailable, clipSize \in (0 - 1)..MaxClipSize :
    \E drawn \in rearmDrawSeqs(rules, ammo, available, clipSize) :
      LET out == rearmOutcome(rules, ammo, available, clipSize, drawn)
      IN /\ ammoUsed' = out.ammoUsed
         /\ clipsSaved' = out.clipsSaved
         /\ draws' = drawn
         /\ ammo' = out.ammo
         /\ rearming' = out.rearming
         /\ ret' = out.ret
         /\ op' = "rearm"
         /\ args' = [available |-> available, clipSize |-> clipSize]
         /\ pre' = State
         /\ UNCHANGED <<rules, disabled>>

\* fire that also pays for the shot out of the weapon's ammo.
fireConsumesAmmo ==
  /\ ammo' = setAmmoValue(rules, ammo - 1)
  /\ op' = "fire"
  /\ args' = <<>>
  /\ ret' = fireProjectile(rules)
  /\ pre' = State
  /\ NoRearm
  /\ UNCHANGED <<rules, rearming, disabled>>

fire == Query("fire", fireProjectile(rules))

getClipsLoaded ==
  \E v \in getClipsLoadedResults(rules, ammo) : Query("getClipsLoaded", v)

Next ==
  \/ load
  \/ save
  \/ getAmmo
  \/ setAmmo
  \/ isRearming
  \/ setRearming
  \/ isDisabled
  \/ setDisabled
  \/ rearm
  \/ fire
  \/ getClipsLoaded

Spec == Init /\ [][Next]_vars

\* The same weapon under rule sets whose clip item varies.
InitClips == InitWith(ClipRuleSets)

SpecClips == InitClips /\ [][Next]_vars

\* The rearm cycle: the craft's tick driver calls rearm once per tick for clips
\* of one size, with at least one clip in stock each time, and nothing else
\* touches the weapon.
RearmTick ==
  /\ rearm
  /\ args'.available >= 1
  /\ args'.clipSize >= 0
  /\ op = "rearm" => args'.clipSize = args.clipSize

\* Every tick comes: the driver never stops calling rearm.
SpecRearmCycle == Init /\ [][RearmTick]_vars /\ WF_vars(RearmTick)

\* ================================================================= claims
\* What the claims call the number of clips loaded by the last rearm call.
clipsLoaded == IF args.clipSize > 0 THEN ammoUsed \div args.clipSize ELSE 0

\* The keys of the record handed to the last load call.
readerKeys == DOMAIN args.reader

\* C1: in every reachable state the stored ammo satisfies 0 <= ammo <= ammoMax.
\* (Stated as claimed; the constructor and load store any int unchecked.)
C1_AmmoInRange == 0 <= ammo /\ ammo <= rules.ammoMax

\* C2: setAmmo(newAmmo) leaves ammo = 0 and returns false when newAmmo < 0,
\* leaves ammo = ammoMax and returns true when newAmmo > ammoMax, and otherwise
\* leaves ammo = newAmmo and returns true, whatever ammo was held before.
C2_SetAmmoContract ==
  op = "setAmmo" =>
    /\ args.ammo < 0 => (ammo = 0 /\ ret = FALSE)
    /\ args.ammo > rules.ammoMax => (ammo = rules.ammoMax /\ ret = TRUE)
    /\ (0 <= args.ammo /\ args.ammo <= rules.ammoMax) => (ammo = args.ammo /\ ret = TRUE)

\* C2 witness: a setAmmo above ammoMax that changed the ammo held before.
C2_Witness ==
  /\ op = "setAmmo" /\ args.ammo > rules.ammoMax
  /\ pre.ammo # ammo /\ ammo = rules.ammoMax /\ ret = TRUE

\* C3: rearm(available, clipSize) with available >= 0 and clipSize >= 0 never
\* returns more clips than available.
C3_RearmWithinAvailable ==
  (op = "rearm" /\ args.available >= 0 /\ args.clipSize >= 0) => ret <= args.available

\* C3 witness: a rearm that wanted more clips than were available and used them all.
C3_Witness ==
  /\ op = "rearm" /\ args.clipSize > 0 /\ args.available > 0
  /\ Min(rules.rearmRate, rules.ammoMax - pre.ammo + args.clipSize - 1) \div args.clipSize
       > args.available
  /\ ret = args.available

\* The rule set of the spec's worked example (ammoMax=60, rearmRate=20).
ExampleRules ==
  [ ammoMax |-> 60, rearmRate |-> 20, useStatisticalBulletSaving |-> FALSE,
    clipItem |-> NoItem, launcherItem |-> NoItem, unifiedDamageFormula |-> FALSE,
    type |-> "STR_WEAPON" ]

\* C4: from 0 <= ammo <= ammoMax, with available >= 0 and clipSize > 0, rearm
\* leaves ammo = min(ammoMax, ammo + c * clipSize) and returns c - saved, where
\* needed = floor(min(rearmRate, ammoMax - ammo + clipSize - 1) / clipSize),
\* c = min(needed, available) and saved (0 or 1) is the clip statistically saved;
\* ammoMax=60, rearmRate=20, clipSize=10, ammo=0, available=5 gives 20 and 2.
C4_RearmContract ==
  /\ (op = "rearm" /\ 0 <= pre.ammo /\ pre.ammo <= rules.ammoMax
        /\ args.available >= 0 /\ args.clipSize > 0) =>
       LET n == Min(rules.rearmRate, rules.ammoMax - pre.ammo + args.clipSize - 1)
                  \div args.clipSize
           c == Min(n, args.available)
       IN /\ ammo = Min(rules.ammoMax, pre.ammo + c * args.clipSize)
          /\ clipsSaved \in {0, 1}
          /\ ret = c - clipsSaved
  /\ rearmDrawSeqs(ExampleRules, 0, 5, 10) = {<<>>}
  /\ setAmmoValue(ExampleRules, 0 + rearmAmmoUsed(ExampleRules, 0, 5, 10)) = 20
  /\ rearmResult(10, rearmAmmoUsed(ExampleRules, 0, 5, 10),
                 rearmClipsSaved(ExampleRules, 0, 5, 10, <<>>)) = 2

\* C4 witness: an in-range rearm that loaded a clip past capacity and saved it.
C4_Witness ==
  /\ op = "rearm" /\ 0 <= pre.ammo /\ pre.ammo <= rules.ammoMax
  /\ args.available >= 0 /\ args.clipSize > 1
  /\ ammo > pre.ammo /\ ammo = rules.ammoMax /\ clipsSaved = 1 /\ ret = 0

\* C5: rearm(available, 0) adds exactly rearmRate to ammo (clamped to ammoMax),
\* returns 0 and draws nothing from the RNG, in every state.
\* (Stated as claimed; it fails from the negative ammo C1 lets in.)
C5_RearmNoClips ==
  (op = "rearm" /\ args.clipSize = 0) =>
    /\ ammo = Min(rules.ammoMax, pre.ammo + rules.rearmRate)
    /\ ret = 0
    /\ draws = <<>>

\* C6: a clip is statistically saved only if clipSize > 1 and the rules enable
\* statistical bullet saving; when clipSize <= 1 or the flag is off rearm returns
\* the number of clips loaded; the number of saved clips is always 0 or 1.
C6_SavingGated ==
  op = "rearm" =>
    /\ clipsSaved \in {0, 1}
    /\ clipsSaved = 1 => (args.clipSize > 1 /\ rules.useStatisticalBulletSaving)
    /\ (args.clipSize <= 1 \/ ~rules.useStatisticalBulletSaving) => ret = clipsLoaded

\* C6 witness: the overflow case with the flag off: clips loaded, none saved.
C6_Witness ==
  /\ op = "rearm" /\ args.clipSize > 1 /\ ~rules.useStatisticalBulletSaving
  /\ pre.ammo + ammoUsed > rules.ammoMax
  /\ clipsSaved = 0 /\ ret = clipsLoaded /\ ret > 0

\* C7: after every rearm the stored rearming flag equals (ammo < ammoMax) on the
\* new ammo, whatever the flags and ammo were before; rearm with available = 0
\* and clipSize > 0 adds no ammo and leaves rearming true while ammo < ammoMax.
\* (Stated as claimed; "adds no ammo" fails from the out-of-range ammo C1 lets in.)
C7_RearmingRecomputed ==
  op = "rearm" =>
    /\ rearming = (ammo < rules.ammoMax)
    /\ (args.available = 0 /\ args.clipSize > 0) =>
         /\ ammoUsed = 0
         /\ ammo = pre.ammo
         /\ ammo < rules.ammoMax => rearming

\* C8: isRearming() returns false whenever disabled is set, the stored rearming
\* flag otherwise, and changes no state.
C8_IsRearmingMasked ==
  op = "isRearming" =>
    /\ pre.disabled => ret = FALSE
    /\ ~pre.disabled => ret = pre.rearming
    /\ State = pre

\* C8 witness: a disabled weapon whose stored flag is set answers false.
C8_Witness == op = "isRearming" /\ disabled /\ rearming /\ ret = FALSE

\* C9: the stored rearming flag is changed only by setRearming, rearm and load;
\* setDisabled leaves rearming and ammo unchanged, setAmmo leaves rearming and
\* disabled unchanged; so setDisabled(true) directly followed by
\* setDisabled(false) makes isRearming() the flag stored before the disabling.
C9_FlagFrame ==
  /\ [](/\ op = "setDisabled" => (rearming = pre.rearming /\ ammo = pre.ammo)
        /\ op = "setAmmo" => (rearming = pre.rearming /\ disabled = pre.disabled)
        /\ rearming # pre.rearming => op \in {"setRearming", "rearm", "load"})
  /\ [][(/\ op = "setDisabled" /\ args.disabled = TRUE
         /\ op' = "setDisabled" /\ args'.disabled = FALSE)
          => isRearmingResult(disabled', rearming') = pre.rearming]_vars

\* C9 witness: a weapon with the flag set, disabled and enabled again.
C9_Witness ==
  /\ op = "setDisabled" /\ args.disabled = FALSE /\ pre.disabled
  /\ rearming /\ isRearmingResult(disabled, rearming)

Fresh(a0) == [ammo |-> a0, rearming |-> ctorRearming, disabled |-> ctorDisabled]

\* C11: save writes ammo always and the rearming and disabled keys only when the
\* respective flag is true, and loading the saved record into a freshly
\* constructed weapon of the same rules yields the same ammo, rearming, disabled.
C11_SaveLoadRoundTrip ==
  op = "save" =>
    /\ "ammo" \in DOMAIN ret /\ ret["ammo"] = pre.ammo
    /\ ("rearming" \in DOMAIN ret) <=> pre.rearming
    /\ ("disabled" \in DOMAIN ret) <=> pre.disabled
    /\ \A a0 \in AmmoInputs(rules) : loadState(ret, Fresh(a0)) = pre

\* C11 witness: a save of a disabled weapon that is not rearming: one flag key.
C11_Witness ==
  /\ op = "save" /\ pre.disabled /\ ~pre.rearming
  /\ DOMAIN ret = {"type", "ammo", "disabled"}
  /\ \E a0 \in AmmoInputs(rules) : a0 # pre.ammo /\ loadState(ret, Fresh(a0)) = pre

\* C12: a rearm call draws from the RNG exactly once, a value in
\* 0..clipSize-1, when clipSize > 1, statistical bullet saving is enabled and
\* ammo + ammoUsed - ammoMax > 0, and draws nothing in every other case; no
\* other operation draws.
C12_DrawsOnce ==
  /\ op = "rearm" =>
       IF /\ args.clipSize > 1 /\ rules.useStatisticalBulletSaving
          /\ pre.ammo + ammoUsed - rules.ammoMax > 0
         THEN Len(draws) = 1 /\ draws[1] \in 0..(args.clipSize - 1)
         ELSE draws = <<>>
  /\ op # "rearm" => draws = <<>>

\* C12 witness: a rearm that drew the largest value its clip size allows.
C12_Witness ==
  /\ op = "rearm" /\ args.clipSize > 2
  /\ Len(draws) = 1 /\ draws[1] = args.clipSize - 1

\* C13: getClipsLoaded returns floor(ammo / clipItem.clipSize) when a clip item
\* of positive clip size is set, ignoring rearmRate, and floor(ammo / rearmRate)
\* otherwise; for every rearmRate >= 0 the result is a defined integer, and the
\* call changes no state.
\* (Stated as claimed; with rearmRate = 0 and no such clip item the quotient and
\* its conversion to int are undefined.)
C13_ClipsLoaded ==
  op = "getClipsLoaded" =>
    LET divisor == IF rules.clipItem # NoItem /\ rules.clipItem.clipSize > 0
                     THEN rules.clipItem.clipSize
                     ELSE rules.rearmRate
    IN /\ State = pre
       /\ divisor # 0
       /\ ret = pre.ammo \div divisor

\* C14: fire() leaves ammo, rearming and disabled unchanged in every state and
\* produces a shot descriptor at any ammo level (ammo = 0 included) and for any
\* flag values.
C14_FireFrame ==
  op = "fire" =>
    /\ ammo = pre.ammo /\ rearming = pre.rearming /\ disabled = pre.disabled
    /\ DOMAIN ret = {"damageItem", "type", "speed", "accuracy", "damage", "range",
                     "shieldDamageModifier"}
    /\ ret.type = "projectileType" /\ ret.damage = "damage"

\* C14 witness: a shot from an empty, disabled weapon that is marked rearming.
C14_Witness ==
  /\ op = "fire" /\ pre.ammo = 0 /\ pre.disabled /\ pre.rearming
  /\ ammo = 0 /\ ret.speed = "projectileSpeed"

\* C15 as claimed: for every rearmRate > 0 and every clipSize >= 0, rearm called
\* once per tick with at least one clip available each time eventually leaves
\* ammo = ammoMax and the stored rearming flag false.
C15_RearmCompletes ==
  rules.rearmRate > 0 => <>(ammo = rules.ammoMax /\ ~rearming)

\* C15 amended: the same, for clips that fit the rearm rate: clipSize = 0 or
\* 0 < clipSize <= rearmRate.  (A larger clip makes needed = 0 on every tick.)
C15_RearmCompletesWhenClipFits ==
  []((op = "rearm" /\ rules.rearmRate > 0 /\ args.clipSize <= rules.rearmRate)
       => <>(ammo = rules.ammoMax /\ ~rearming))

\* C15 witness: the tick that fills a weapon the previous tick left rearming.
C15_Witness ==
  /\ op = "rearm" /\ args.clipSize >= 2 /\ args.clipSize <= rules.rearmRate
  /\ pre.rearming /\ pre.ammo < rules.ammoMax
  /\ ammo = rules.ammoMax /\ ~rearming

\* The outcomes the last rearm call could have had with other RNG draws.
OtherOutcomes ==
  { rearmOutcome(rules, pre.ammo, args.available, args.clipSize, drawn) :
      drawn \in rearmDrawSeqs(rules, pre.ammo, args.available, args.clipSize) }

\* C16: the bullet-saving draw affects only rearm's return value: the same call
\* from the same state with any other draw ends with the same ammo and the same
\* rearming flag, and its return value differs by at most 1.
C16_DrawOnlyInResult ==
  op = "rearm" =>
    \A other \in OtherOutcomes :
      /\ other.ammo = ammo
      /\ other.rearming = rearming
      /\ other.ret - ret \in {0 - 1, 0, 1}

\* C16 witness: a call that saved a clip where another draw would have saved none.
C16_Witness ==
  /\ op = "rearm" /\ clipsSaved = 1
  /\ \E other \in OtherOutcomes :
       other.clipsSaved = 0 /\ other.ret = ret + 1 /\ other.ammo = ammo

\* C17 as claimed: setAmmo returns false if and only if ammo is 0 after the call.
C17_FalseIffEmpty ==
  op = "setAmmo" => ((ret = FALSE) <=> (ammo = 0))

\* C17 amended: setAmmo returns false if and only if the requested ammo is
\* negative; a false result implies ammo = 0 afterwards, but setAmmo(0) (and any
\* request when ammoMax = 0) leaves ammo = 0 and returns true.
C17_FalseIffNegative ==
  op = "setAmmo" =>
    /\ (ret = FALSE) <=> (args.ammo < 0)
    /\ ret = FALSE => ammo = 0

\* C17 witness: setAmmo(0) empties a loaded weapon and reports success.
C17_Witness ==
  op = "setAmmo" /\ args.ammo = 0 /\ pre.ammo > 0 /\ ammo = 0 /\ ret = TRUE

\* C18: rearm(available, clipSize) with available >= 0 and clipSize >= 0 returns
\* a number of clips >= 0: a clip is saved only in a call that loaded one.
\* (Stated as claimed; it fails from the ammo above ammoMax that C1 lets in.)
C18_ResultNonNegative ==
  (op = "rearm" /\ args.available >= 0 /\ args.clipSize >= 0) =>
    /\ ret >= 0
    /\ clipsSaved = 1 => clipsLoaded >= 1

\* C19: from 0 <= ammo <= ammoMax, with clipSize > 0 and available >= 0, the
\* ammo rearm wastes by overflow is at most clipSize - 1; at ammo = ammoMax
\* rearm loads 0 clips, returns 0, draws nothing and leaves ammo unchanged.
C19_OverflowBelowClip ==
  (/\ op = "rearm" /\ 0 <= pre.ammo /\ pre.ammo <= rules.ammoMax
   /\ args.clipSize > 0 /\ args.available >= 0) =>
    /\ pre.ammo + ammoUsed - rules.ammoMax <= args.clipSize - 1
    /\ pre.ammo = rules.ammoMax =>
         (ammoUsed = 0 /\ ret = 0 /\ draws = <<>> /\ ammo = pre.ammo)

\* C19 witness: a last clip of which a single round fits.
C19_Witness ==
  /\ op = "rearm" /\ 0 <= pre.ammo /\ pre.ammo < rules.ammoMax
  /\ args.clipSize > 1 /\ args.available >= 0
  /\ pre.ammo + ammoUsed - rules.ammoMax = args.clipSize - 1

====
